---- MODULE Spec2Model ----
(***************************************************************************)
(* Text-finder.py: recursive, case-insensitive literal search over the     *)
(* text files and the PDF files of a directory tree.                       *)
(*                                                                         *)
(*   SpecMatch  the matcher  re.compile(re.escape(P), re.IGNORECASE)       *)
(*              applied to a line, over bounded phrases and lines.         *)
(*   Spec       one run of the script: the __main__ block, then            *)
(*              search_text_files, search_pdfs with its pool of            *)
(*              _search_single_pdf tasks, and the final sort.              *)
(*   SpecText   the same run up to the return of search_text_files.        *)
(*                                                                         *)
(* Characters are one-character strings, strings are sequences of them.    *)
(* A file path is the rank of the path in Python's string order.           *)
(***************************************************************************)
EXTENDS Integers, Sequences, FiniteSets, TLC

VARIABLES
    \* ---- SpecMatch: one compile-and-search of the matcher
    m_pc,               \* "input" -> "compiled" -> "searched"
    m_phrase,           \* the search sentence
    m_line,             \* the line searched
    m_pattern,          \* re.escape(m_phrase), the source of the compiled pattern
    m_found,            \* pattern.search(m_line) is not None
    \* ---- Spec: the run
    pc,                 \* position of the script
    sentence_to_find,   \* input(): the sentence
    folder_to_search,   \* input(): the directory
    files,              \* the tree in os.walk order: [file_path, ext]
    toolInstalled,      \* pdftotext is on the PATH
    total_files_to_process,
    processed_files_count,
    idx,                \* index in files of the second pass of search_text_files
    found_occurrences,  \* search_text_files: the result list
    emitted,            \* the processed count last written to the progress line
    finished,           \* text files whose with-block has been left (scanned or error caught)
    readErrors,         \* file_path -> lines read before the read error was raised
    pdf_files_to_process,
    task,               \* per submitted future: "pending", "done", "failed"
    taskResult,         \* per future: the list _search_single_pdf returned
    taskInfo,           \* per future: [strategy, failed, pagesRead, warned]
    finishOrder,        \* futures in the order they reached a terminal state
    collectOrder,       \* futures in the order the collection loop took them
    pdfProgress,        \* the "Processed i/N" values written, in order
    all_found_occurrences,
    all_results,        \* the aggregated list of the __main__ block
    walks,              \* os.walk calls started
    opens,              \* files opened (text) or handed to an extractor (PDF)
    errors,             \* "Error: ..." lines printed for the configuration
    warnings            \* "'pdftotext' not found" warnings written

mvars == <<m_pc, m_phrase, m_line, m_pattern, m_found>>
rvars == <<pc, sentence_to_find, folder_to_search, files, toolInstalled,
           total_files_to_process, processed_files_count, idx, found_occurrences,
           emitted, finished, readErrors, pdf_files_to_process, task, taskResult,
           taskInfo, finishOrder, collectOrder, pdfProgress, all_found_occurrences,
           all_results, walks, opens, errors, warnings>>
vars == <<mvars, rvars>>

(***************************************************************************)
(* Bounds                                                                  *)
(***************************************************************************)
MaxPhraseLen == 3
MaxLineLen == 4
NumFiles == 2
MaxLines == 2
MaxPages == 2

Range(s) == {s[i] : i \in 1..Len(s)}
SeqsUpTo(S, n) == UNION {[1..k -> S] : k \in 0..n}

(***************************************************************************)
(* The matcher                                                             *)
(***************************************************************************)
\* characters of the phrases and lines of SpecMatch
MatchChars == {"a", "A", "x", ".", "*"}

\* re.escape: the characters it escapes
SpecialChars == {"(", ")", "[", "]", "{", "}", "?", "*", "+", "-", "|", "^", "$",
                 "\\", ".", "&", "~", "#", " ", "\t", "\n", "\r"}

\* str.lower / the case mapping of re.IGNORECASE, one character at a time
LowerChar(c) == IF c = "A" THEN "a" ELSE IF c = "X" THEN "x" ELSE c

re_escape_identity(s) == s

RECURSIVE re_escape(_)
re_escape(s) ==
    IF s = <<>> THEN <<>>
    ELSE (IF Head(s) \in SpecialChars THEN <<"\\", Head(s)>> ELSE <<Head(s)>>)
         \o re_escape(Tail(s))

\* re.compile: the pattern source parsed into atoms; ok is FALSE when re.error is
\* raised (a trailing backslash, or a * with nothing to repeat)
RECURSIVE ParseAtoms(_, _)
ParseAtoms(p, acc) ==
    IF p = <<>> THEN [ok |-> TRUE, atoms |-> acc]
    ELSE IF Head(p) = "\\" THEN
        IF Len(p) < 2 THEN [ok |-> FALSE, atoms |-> <<>>]
        ELSE ParseAtoms(SubSeq(p, 3, Len(p)),
                        Append(acc, [kind |-> "lit", ch |-> p[2], star |-> FALSE]))
    ELSE IF Head(p) = "*" THEN
        IF acc = <<>> \/ acc[Len(acc)].star THEN [ok |-> FALSE, atoms |-> <<>>]
        ELSE ParseAtoms(Tail(p),
                        [acc EXCEPT ![Len(acc)] = [@ EXCEPT !.star = TRUE]])
    ELSE IF Head(p) = "." THEN
        ParseAtoms(Tail(p), Append(acc, [kind |-> "any", ch |-> ".", star |-> FALSE]))
    ELSE ParseAtoms(Tail(p), Append(acc, [kind |-> "lit", ch |-> Head(p), star |-> FALSE]))

re_compile(p) == ParseAtoms(p, <<>>)

\* one atom against one character under re.IGNORECASE
AtomMatches(a, c) ==
    IF a.kind = "any" THEN c # "\n" ELSE LowerChar(a.ch) = LowerChar(c)

RECURSIVE MatchAt(_, _, _, _)
MatchAt(atoms, k, text, j) ==
    IF k > Len(atoms) THEN TRUE
    ELSE IF atoms[k].star THEN
        \/ MatchAt(atoms, k + 1, text, j)
        \/ /\ j <= Len(text)
           /\ AtomMatches(atoms[k], text[j])
           /\ MatchAt(atoms, k, text, j + 1)
    ELSE /\ j <= Len(text)
         /\ AtomMatches(atoms[k], text[j])
         /\ MatchAt(atoms, k + 1, text, j + 1)

\* pattern.search(line): a match starting anywhere in the line
pattern_search(p, text) ==
    LET c == re_compile(p)
    IN  /\ c.ok
        /\ \E j \in 1..(Len(text) + 1) : MatchAt(c.atoms, 1, text, j)

\* escaped = re.escape(search); pattern = re.compile(escaped, re.IGNORECASE)
MCompile ==
    /\ m_pc = "input"
    /\ m_pattern' = re_escape(m_phrase)
    /\ m_pc' = "compiled"
    /\ UNCHANGED <<m_phrase, m_line, m_found, rvars>>

\* if pattern.search(line):
MSearch ==
    /\ m_pc = "compiled"
    /\ m_found' = pattern_search(m_pattern, m_line)
    /\ m_pc' = "searched"
    /\ UNCHANGED <<m_phrase, m_line, m_pattern, rvars>>

(***************************************************************************)
(* The run: inputs and helpers                                             *)
(***************************************************************************)
Whitespace == {" ", "\t", "\n", "\r"}

\* str.strip()
RECURSIVE LStrip(_)
LStrip(s) == IF s # <<>> /\ Head(s) \in Whitespace THEN LStrip(Tail(s)) ELSE s

RECURSIVE RStrip(_)
RStrip(s) ==
    IF s # <<>> /\ s[Len(s)] \in Whitespace THEN RStrip(SubSeq(s, 1, Len(s) - 1)) ELSE s

Strip(s) == RStrip(LStrip(s))

\* the sentences and directories typed at the two prompts
SentenceInputs == {<<>>, <<" ">>, <<"a", ".">>}
FolderInputs == {<<>>, <<" ">>, <<"m">>, <<"d">>}
\* the directories that exist
ExistingDirs == {<<"d">>}
IsDirUnchecked(f) == f \in FolderInputs

\* os.path.isdir
IsDir(f) == f \in ExistingDirs

\* the lines a file can hold: a match in another case with blanks around it, and a
\* line that only the unescaped pattern would match
LineInputs == {<<" ", "A", ".", " ">>, <<"a", "x">>}
Contents == SeqsUpTo(LineInputs, MaxLines)

\* the extensions of the files in the tree
ExtInputs == {".txt", ".TXT", ".pdf", ".bin"}

\* str.lower() on an extension
LowerExt(e) == IF e = ".TXT" THEN ".txt" ELSE IF e = ".PDF" THEN ".pdf" ELSE e

\* line 213
extensions == <<".html", ".htm", ".txt", ".css", ".js", ".py", ".md", ".xml", ".json",
                ".log", ".csv", ".sh", ".yml", ".yaml", ".conf", ".pdf">>
\* line 222: [ext for ext in extensions if ext != '.pdf']
IsNotPdfExt(e) == e # ".pdf"
file_extensions_to_search == SelectSeq(extensions, IsNotPdfExt)

\* first pass, lines 69-70
CountEligible(f) == LowerExt(f.ext) \in Range(file_extensions_to_search)

ScanEligibleCaseSensitive(f) == f.ext \in Range(file_extensions_to_search)

\* second pass, lines 82-83
ScanEligible(f) == LowerExt(f.ext) \in Range(file_extensions_to_search)

\* line 178: file_name.lower().endswith(".pdf")
IsPdfFile(f) == LowerExt(f.ext) = ".pdf"

\* the pattern both functions compile from the sentence (lines 55-56, 112-113)
pattern == re_escape(sentence_to_find)

\* lines 94-96: the occurrences of the lines read from one text file
RECURSIVE TextLineOccs(_, _, _)
TextLineOccs(path, lines, i) ==
    IF i > Len(lines) THEN <<>>
    ELSE (IF pattern_search(pattern, lines[i])
          THEN <<[file_path |-> path, line_number |-> i, line_content |-> Strip(lines[i])]>>
          ELSE <<>>)
         \o TextLineOccs(path, lines, i + 1)

\* lines 122-124 (page 0) and 138-140 (page page_num + 1)
RECURSIVE PdfLineOccs(_, _, _, _)
PdfLineOccs(path, page, lines, i) ==
    IF i > Len(lines) THEN <<>>
    ELSE (IF pattern_search(pattern, lines[i])
          THEN <<[file_path |-> path, page_number |-> page, line_number |-> i,
                  line_content |-> Strip(lines[i])]>>
          ELSE <<>>)
         \o PdfLineOccs(path, page, lines, i + 1)

\* lines 133-140: the pages read by PyPDF2, in order
RECURSIVE PdfPageOccs(_, _, _)
PdfPageOccs(path, pages, p) ==
    IF p > Len(pages) THEN <<>>
    ELSE PdfLineOccs(path, p, pages[p], 1) \o PdfPageOccs(path, pages, p + 1)

(***************************************************************************)
(* Aggregation: line 233                                                   *)
(***************************************************************************)
\* x.get('page_number', 0)
PageOf(x) == IF "page_number" \in DOMAIN x THEN x.page_number ELSE 0

KeyLessNoPath(a, b) ==
    \/ PageOf(a) < PageOf(b)
    \/ PageOf(a) = PageOf(b) /\ a.line_number < b.line_number

\* the key (file_path, page_number or 0, line_number), compared as tuples
KeyLess(a, b) ==
    \/ a.file_path < b.file_path
    \/ /\ a.file_path = b.file_path
       /\ \/ PageOf(a) < PageOf(b)
          \/ PageOf(a) = PageOf(b) /\ a.line_number < b.line_number

\* list.sort is stable: x goes after every element whose key is not greater
RECURSIVE InsertSorted(_, _)
InsertSorted(x, s) ==
    IF s = <<>> THEN <<x>>
    ELSE IF KeyLess(x, Head(s)) THEN <<x>> \o s
    ELSE <<Head(s)>> \o InsertSorted(x, Tail(s))

RECURSIVE SortByKey(_, _)
SortByKey(s, acc) ==
    IF s = <<>> THEN acc ELSE SortByKey(Tail(s), InsertSorted(Head(s), acc))

(***************************************************************************)
(* The run: state after the two prompts                                    *)
(***************************************************************************)
\* the trees: NumFiles files in os.walk order, no two with the same path
Trees ==
    {t \in [1..NumFiles -> [file_path : 1..NumFiles, ext : ExtInputs]] :
        \A i, j \in 1..NumFiles : t[i].file_path = t[j].file_path => i = j}

RunIdle ==
    /\ pc = "idle"
    /\ sentence_to_find = <<>>
    /\ folder_to_search = <<>>
    /\ files = <<>>
    /\ toolInstalled = FALSE
    /\ total_files_to_process = 0
    /\ processed_files_count = 0
    /\ idx = 0
    /\ found_occurrences = <<>>
    /\ emitted = 0
    /\ finished = {}
    /\ readErrors = <<>>
    /\ pdf_files_to_process = <<>>
    /\ task = <<>>
    /\ taskResult = <<>>
    /\ taskInfo = <<>>
    /\ finishOrder = <<>>
    /\ collectOrder = <<>>
    /\ pdfProgress = <<>>
    /\ all_found_occurrences = <<>>
    /\ all_results = <<>>
    /\ walks = 0
    /\ opens = 0
    /\ errors = 0
    /\ warnings = 0

MatchIdle ==
    /\ m_pc = "idle"
    /\ m_phrase = <<>>
    /\ m_line = <<>>
    /\ m_pattern = <<>>
    /\ m_found = FALSE

Init ==
    /\ MatchIdle
    /\ pc = "main"
    /\ sentence_to_find \in SentenceInputs
    /\ folder_to_search \in FolderInputs
    /\ files \in Trees
    /\ toolInstalled \in BOOLEAN
    /\ total_files_to_process = 0
    /\ processed_files_count = 0
    /\ idx = 0
    /\ found_occurrences = <<>>
    /\ emitted = 0
    /\ finished = {}
    /\ readErrors = <<>>
    /\ pdf_files_to_process = <<>>
    /\ task = <<>>
    /\ taskResult = <<>>
    /\ taskInfo = <<>>
    /\ finishOrder = <<>>
    /\ collectOrder = <<>>
    /\ pdfProgress = <<>>
    /\ all_found_occurrences = <<>>
    /\ all_results = <<>>
    /\ walks = 0
    /\ opens = 0
    /\ errors = 0
    /\ warnings = 0

txtVars == <<total_files_to_process, processed_files_count, idx, found_occurrences,
             emitted, finished, readErrors>>
pdfVars == <<pdf_files_to_process, task, taskResult, taskInfo, finishOrder,
             collectOrder, pdfProgress, all_found_occurrences, warnings>>
inputVars == <<sentence_to_find, folder_to_search, files, toolInstalled>>

(***************************************************************************)
(* __main__, lines 216-225                                                 *)
(***************************************************************************)
MainCheck ==
    /\ pc = "main"
    /\ IF Strip(sentence_to_find) = <<>> \/ Strip(folder_to_search) = <<>>
       THEN /\ errors' = errors + 1
            /\ pc' = "done"
       ELSE /\ errors' = errors
            /\ pc' = "txt_enter"
    /\ UNCHANGED <<mvars, inputVars, txtVars, pdfVars, all_results, walks, opens>>

(***************************************************************************)
(* search_text_files, lines 54-104                                         *)
(***************************************************************************)
\* lines 58-60
TxtEnter ==
    /\ pc = "txt_enter"
    /\ IF IsDir(folder_to_search)
       THEN /\ errors' = errors
            /\ pc' = "txt_count"
       ELSE /\ errors' = errors + 1
            /\ pc' = "pdf_enter"
    /\ UNCHANGED <<mvars, inputVars, txtVars, pdfVars, all_results, walks, opens>>

\* lines 64-76: the counting pass
TxtCount ==
    /\ pc = "txt_count"
    /\ walks' = walks + 1
    /\ total_files_to_process' = Cardinality({i \in 1..Len(files) : CountEligible(files[i])})
    /\ pc' = IF total_files_to_process' = 0 THEN "pdf_enter" ELSE "txt_loop"
    /\ UNCHANGED <<mvars, inputVars, processed_files_count, idx, found_occurrences,
                   emitted, finished, readErrors, pdfVars, all_results, opens, errors>>

\* line 80: the second os.walk starts when the loop is entered
WalkIfFirst(i, w) == IF i = 0 THEN w + 1 ELSE w

\* lines 81-83: a file the filter rejects
TxtSkip ==
    /\ pc = "txt_loop"
    /\ idx < Len(files)
    /\ ~ScanEligible(files[idx + 1])
    /\ idx' = idx + 1
    /\ walks' = WalkIfFirst(idx, walks)
    /\ UNCHANGED <<mvars, inputVars, total_files_to_process, processed_files_count,
                   found_occurrences, emitted, finished, readErrors, pdfVars,
                   all_results, opens, errors, pc>>

TxtSelectNoCount ==
    /\ pc = "txt_loop"
    /\ idx < Len(files)
    /\ ScanEligible(files[idx + 1])
    /\ idx' = idx + 1
    /\ walks' = WalkIfFirst(idx, walks)
    /\ pc' = "txt_scan"
    /\ UNCHANGED <<mvars, inputVars, total_files_to_process, processed_files_count,
                   emitted, found_occurrences, finished, readErrors, pdfVars,
                   all_results, opens, errors>>

\* lines 83-90: the file is counted and the progress line written, then it is opened
TxtSelect ==
    /\ pc = "txt_loop"
    /\ idx < Len(files)
    /\ ScanEligible(files[idx + 1])
    /\ idx' = idx + 1
    /\ walks' = WalkIfFirst(idx, walks)
    /\ processed_files_count' = processed_files_count + 1
    /\ emitted' = processed_files_count'
    /\ pc' = "txt_scan"
    /\ UNCHANGED <<mvars, inputVars, total_files_to_process, found_occurrences,
                   finished, readErrors, pdfVars, all_results, opens, errors>>

TxtScanFileAbort ==
    /\ pc = "txt_scan"
    /\ \E lines \in Contents, failed \in BOOLEAN :
        /\ found_occurrences' =
               found_occurrences \o TextLineOccs(files[idx].file_path, lines, 1)
        /\ readErrors' = IF failed
                         THEN readErrors @@ (files[idx].file_path :> Len(lines))
                         ELSE readErrors
        /\ finished' = IF failed THEN finished ELSE finished \cup {files[idx].file_path}
        /\ pc' = IF failed THEN "pdf_enter" ELSE "txt_loop"
    /\ opens' = opens + 1
    /\ UNCHANGED <<mvars, inputVars, total_files_to_process, processed_files_count, idx,
                   emitted, pdfVars, all_results, walks, errors>>

\* lines 92-100: the lines are read and matched one by one, each match appended as it
\* is found; an exception raised by open() or by a read ends the file (lines holds
\* what was read before it) and the loop goes on
TxtScanFile ==
    /\ pc = "txt_scan"
    /\ \E lines \in Contents, failed \in BOOLEAN :
        /\ found_occurrences' =
               found_occurrences \o TextLineOccs(files[idx].file_path, lines, 1)
        /\ readErrors' = IF failed
                         THEN readErrors @@ (files[idx].file_path :> Len(lines))
                         ELSE readErrors
    /\ finished' = finished \cup {files[idx].file_path}
    /\ opens' = opens + 1
    /\ pc' = "txt_loop"
    /\ UNCHANGED <<mvars, inputVars, total_files_to_process, processed_files_count, idx,
                   emitted, pdfVars, all_results, walks, errors>>

\* lines 101-104
TxtReturn ==
    /\ pc = "txt_loop"
    /\ idx = Len(files)
    /\ walks' = WalkIfFirst(idx, walks)
    /\ pc' = "pdf_enter"
    /\ UNCHANGED <<mvars, inputVars, txtVars, pdfVars, all_results, opens, errors>>

(***************************************************************************)
(* search_pdfs, lines 167-202, and its tasks, _search_single_pdf           *)
(***************************************************************************)
\* lines 169-171
PdfEnter ==
    /\ pc = "pdf_enter"
    /\ IF IsDir(folder_to_search)
       THEN /\ errors' = errors
            /\ pc' = "pdf_walk"
       ELSE /\ errors' = errors + 1
            /\ pc' = "aggregate"
    /\ UNCHANGED <<mvars, inputVars, txtVars, pdfVars, all_results, walks, opens>>

PathOf(f) == f.file_path
RECURSIVE PathsOf(_)
PathsOf(fs) == IF fs = <<>> THEN <<>> ELSE <<PathOf(Head(fs))>> \o PathsOf(Tail(fs))

\* lines 175-185
PdfWalk ==
    /\ pc = "pdf_walk"
    /\ walks' = walks + 1
    /\ pdf_files_to_process' = PathsOf(SelectSeq(files, IsPdfFile))
    /\ pc' = IF pdf_files_to_process' = <<>> THEN "aggregate" ELSE "pdf_submit"
    /\ UNCHANGED <<mvars, inputVars, txtVars, task, taskResult, taskInfo, finishOrder,
                   collectOrder, pdfProgress, all_found_occurrences, warnings,
                   all_results, opens, errors>>

\* lines 187-188: one future per PDF, in the order of pdf_files_to_process
PdfSubmit ==
    /\ pc = "pdf_submit"
    /\ task' = [i \in 1..Len(pdf_files_to_process) |-> "pending"]
    /\ taskResult' = [i \in 1..Len(pdf_files_to_process) |-> <<>>]
    /\ taskInfo' = [i \in 1..Len(pdf_files_to_process) |->
                       [strategy |-> "none", failed |-> FALSE, warned |-> FALSE]]
    /\ pc' = "pdf_collect"
    /\ UNCHANGED <<mvars, inputVars, txtVars, pdf_files_to_process, finishOrder,
                   collectOrder, pdfProgress, all_found_occurrences, warnings,
                   all_results, walks, opens, errors>>

WarnOncePerRun(w) == IF w = 0 THEN 1 ELSE w

\* line 127: the warning of a task that found no pdftotext
WarnToolMissing(w) == w + 1

\* lines 111-153: one task, run to its return in a worker process.
\* With pdftotext: its whole output is split and matched (page 0), or it fails
\* (CalledProcessError, or any other exception) and nothing has been appended.
\* Without it: the warning, then PyPDF2 page by page; an exception ends the file and
\* the matches of the pages read before it (pages) stay in the list returned.
TaskRun(i) ==
    /\ pc = "pdf_collect"
    /\ task[i] = "pending"
    /\ IF toolInstalled
       THEN /\ \E lines \in Contents, failed \in BOOLEAN :
                /\ failed => lines = <<>>
                /\ taskResult' = [taskResult EXCEPT
                       ![i] = PdfLineOccs(pdf_files_to_process[i], 0, lines, 1)]
                /\ taskInfo' = [taskInfo EXCEPT
                       ![i] = [strategy |-> "pdftotext", failed |-> failed,
                               warned |-> FALSE]]
            /\ warnings' = warnings
       ELSE /\ \E pages \in SeqsUpTo(Contents, MaxPages), failed \in BOOLEAN :
                /\ taskResult' = [taskResult EXCEPT
                       ![i] = PdfPageOccs(pdf_files_to_process[i], pages, 1)]
                /\ taskInfo' = [taskInfo EXCEPT
                       ![i] = [strategy |-> "PyPDF2", failed |-> failed,
                               warned |-> TRUE]]
            /\ warnings' = WarnToolMissing(warnings)
    /\ task' = [task EXCEPT ![i] = "done"]
    /\ finishOrder' = Append(finishOrder, i)
    /\ opens' = opens + 1
    /\ UNCHANGED <<mvars, inputVars, txtVars, pdf_files_to_process, collectOrder,
                   pdfProgress, all_found_occurrences, all_results, walks, errors, pc>>

\* a task whose future ends with an exception (its worker process died): it returns
\* nothing; it may have written the warning before
TaskFail(i) ==
    /\ pc = "pdf_collect"
    /\ task[i] = "pending"
    /\ \E warned \in BOOLEAN :
        /\ warned => ~toolInstalled
        /\ taskInfo' = [taskInfo EXCEPT ![i] = [@ EXCEPT !.warned = warned]]
        /\ warnings' = IF warned THEN WarnToolMissing(warnings) ELSE warnings
    /\ task' = [task EXCEPT ![i] = "failed"]
    /\ finishOrder' = Append(finishOrder, i)
    /\ UNCHANGED <<mvars, inputVars, txtVars, pdf_files_to_process, taskResult,
                   collectOrder, pdfProgress, all_found_occurrences, all_results,
                   walks, opens, errors, pc>>

FutureDoneNoWait(st) == st \in {"pending", "done", "failed"}

\* a future in a terminal state: future.result() and the executor's shutdown(wait=True)
\* block until then
FutureDone(st) == st \in {"done", "failed"}

CollectableAsCompleted ==
    {i \in 1..Len(task) : i \notin Range(collectOrder) /\ FutureDone(task[i])}

\* line 190: for i, future in enumerate(futures): the next future of the list, once
\* it is done
Collectable ==
    IF Len(collectOrder) < Len(task) /\ FutureDone(task[Len(collectOrder) + 1])
    THEN {Len(collectOrder) + 1}
    ELSE {}

CollectUncaught ==
    /\ pc = "pdf_collect"
    /\ \E i \in Collectable :
        /\ collectOrder' = Append(collectOrder, i)
        /\ IF task[i] = "failed"
           THEN /\ pc' = "raised"
                /\ UNCHANGED <<all_found_occurrences, pdfProgress>>
           ELSE /\ all_found_occurrences' = all_found_occurrences \o taskResult[i]
                /\ pdfProgress' = Append(pdfProgress, Len(collectOrder) + 1)
                /\ pc' = pc
    /\ UNCHANGED <<mvars, inputVars, txtVars, pdf_files_to_process, task, taskResult,
                   taskInfo, finishOrder, warnings, all_results, walks, opens, errors>>

\* lines 190-198: one turn of the collection loop; an exception of future.result()
\* is caught and reported, and the loop goes on
Collect ==
    /\ pc = "pdf_collect"
    /\ \E i \in Collectable :
        /\ collectOrder' = Append(collectOrder, i)
        /\ IF task[i] = "failed"
           THEN UNCHANGED <<all_found_occurrences, pdfProgress>>
           ELSE /\ all_found_occurrences' = all_found_occurrences \o taskResult[i]
                /\ pdfProgress' = Append(pdfProgress, Len(collectOrder) + 1)
    /\ UNCHANGED <<mvars, inputVars, txtVars, pdf_files_to_process, task, taskResult,
                   taskInfo, finishOrder, warnings, all_results, walks, opens, errors,
                   pc>>

\* lines 187, 199-202: the loop is over, the with block is left (shutdown(wait=True))
PdfReturn ==
    /\ pc = "pdf_collect"
    /\ Len(collectOrder) = Len(task)
    /\ \A i \in 1..Len(task) : FutureDone(task[i])
    /\ pc' = "aggregate"
    /\ UNCHANGED <<mvars, inputVars, txtVars, pdfVars, all_results, walks, opens, errors>>

(***************************************************************************)
(* __main__, lines 227-252                                                 *)
(***************************************************************************)
Aggregate ==
    /\ pc = "aggregate"
    /\ all_results' = SortByKey(found_occurrences \o all_found_occurrences, <<>>)
    /\ pc' = "done"
    /\ UNCHANGED <<mvars, inputVars, txtVars, pdfVars, walks, opens, errors>>

Next ==
    \/ MainCheck
    \/ TxtEnter
    \/ TxtCount
    \/ TxtSkip
    \/ TxtSelect
    \/ TxtScanFile
    \/ TxtReturn
    \/ PdfEnter
    \/ PdfWalk
    \/ PdfSubmit
    \/ \E i \in 1..Len(task) : TaskRun(i)
    \/ \E i \in 1..Len(task) : TaskFail(i)
    \/ Collect
    \/ PdfReturn
    \/ Aggregate

Spec == Init /\ [][Next]_vars

\* the run up to the return of search_text_files
TextNext ==
    \/ MainCheck
    \/ TxtEnter
    \/ TxtCount
    \/ TxtSkip
    \/ TxtSelect
    \/ TxtScanFile
    \/ TxtReturn

SpecText == Init /\ [][TextNext]_vars

MatchInit ==
    /\ RunIdle
    /\ m_pc = "input"
    /\ m_phrase \in SeqsUpTo(MatchChars, MaxPhraseLen)
    /\ m_line \in SeqsUpTo(MatchChars, MaxLineLen)
    /\ m_pattern = <<>>
    /\ m_found = FALSE

MatchNext == MCompile \/ MSearch

SpecMatch == MatchInit /\ [][MatchNext]_vars

(***************************************************************************)
(* Properties                                                              *)
(***************************************************************************)
AfterTextPipeline == pc \in {"pdf_enter", "pdf_walk", "pdf_submit", "pdf_collect",
                             "aggregate", "done"}
AfterPdfPipeline == pc \in {"aggregate", "done"}
Count(s, e) == Cardinality({i \in 1..Len(s) : s[i] = e})
PosIn(s, e) == CHOOSE i \in 1..Len(s) : s[i] = e
OccPage(x) == IF "page_number" \in DOMAIN x THEN x.page_number ELSE 0
OccKeyLE(a, b) ==
    \/ a.file_path < b.file_path
    \/ /\ a.file_path = b.file_path
       /\ \/ OccPage(a) < OccPage(b)
          \/ OccPage(a) = OccPage(b) /\ a.line_number <= b.line_number
Concatenated == found_occurrences \o all_found_occurrences

\* C1: once the run is over, the reported list is in non-decreasing order of
\* (file path, page number or 0, line number), and it holds exactly the occurrences
\* of the text results followed by the PDF results, each as often as there.
C1_SortedPermutation ==
    pc = "done" =>
        /\ \A i, j \in 1..Len(all_results) :
               i < j => OccKeyLE(all_results[i], all_results[j])
        /\ Len(all_results) = Len(Concatenated)
        /\ \A k \in 1..Len(Concatenated) :
               Count(all_results, Concatenated[k]) = Count(Concatenated, Concatenated[k])

\* C1 witness: a finished run whose sort moved something, with a text occurrence
\* and a PDF occurrence of a real page in the list.
C1_Witness ==
    /\ pc = "done"
    /\ all_results # Concatenated
    /\ \E i, j \in 1..Len(all_results) :
           /\ "page_number" \notin DOMAIN all_results[i]
           /\ OccPage(all_results[j]) > 0

FoldChar(c) == IF c = "A" THEN "a" ELSE c
FoldSeq(s) == [i \in 1..Len(s) |-> FoldChar(s[i])]
ContainsSeq(l, p) ==
    \E i \in 0..(Len(l) - Len(p)) : SubSeq(l, i + 1, i + Len(p)) = p

\* C2: the matcher reports a match exactly when the case-folded line contains the
\* case-folded phrase as a contiguous substring, metacharacters taken literally.
C2_LiteralMatch ==
    m_pc = "searched" => (m_found <=> ContainsSeq(FoldSeq(m_line), FoldSeq(m_phrase)))

\* C2 witness: a phrase with a metacharacter found in a line in another case.
C2_Witness ==
    /\ m_pc = "searched"
    /\ m_found
    /\ m_phrase = <<"a", ".", "*">>
    /\ m_line = <<"x", "A", ".", "*">>

\* C3: no failure of a task leaves search_pdfs by an exception, and once it has
\* returned, every occurrence returned by a task that did not fail is in its result.
C3_FailureIsolated ==
    /\ pc # "raised"
    /\ AfterPdfPipeline =>
           \A i \in 1..Len(task) :
               task[i] = "done" =>
                   \A k \in 1..Len(taskResult[i]) :
                       Count(all_found_occurrences, taskResult[i][k]) = 1

\* C3 witness: search_pdfs has returned, a task failed, and a task submitted after
\* it returned an occurrence.
C3_Witness ==
    /\ AfterPdfPipeline
    /\ \E i, j \in 1..Len(task) :
           /\ i < j
           /\ task[i] = "failed"
           /\ task[j] = "done"
           /\ taskResult[j] # <<>>

\* C4 as stated: a file whose extraction failed has no occurrence in the results.
C4_FailedFileContributesNothing ==
    /\ \A k \in 1..Len(found_occurrences) :
           found_occurrences[k].file_path \notin DOMAIN readErrors
    /\ \A i \in 1..Len(task) : taskInfo[i].failed => taskResult[i] = <<>>

\* C4 amended: a file whose extraction fails contributes the matches of what was
\* read before the failure and nothing after it (nothing at all when opening it or
\* pdftotext fails), and every other selected file is still scanned.
C4_FailedFileKeepsPrefix ==
    /\ \A k \in 1..Len(found_occurrences) :
           found_occurrences[k].file_path \in DOMAIN readErrors =>
               found_occurrences[k].line_number
                   <= readErrors[found_occurrences[k].file_path]
    /\ \A i \in 1..Len(task) :
           (taskInfo[i].strategy = "pdftotext" /\ taskInfo[i].failed) =>
               taskResult[i] = <<>>
    /\ AfterTextPipeline => Cardinality(finished) = total_files_to_process
    /\ AfterPdfPipeline => \A i \in 1..Len(task) : task[i] # "pending"

\* C4 witness: a text file failed after a matching line was read, and a file scanned
\* after it contributed too.
C4_Witness ==
    \E i, j \in 1..Len(found_occurrences) :
        /\ i < j
        /\ found_occurrences[i].file_path \in DOMAIN readErrors
        /\ found_occurrences[j].file_path \notin DOMAIN readErrors

ConfigurationError ==
    \/ Strip(sentence_to_find) = <<>>
    \/ folder_to_search \notin ExistingDirs

\* C5: with an empty sentence or a root that is no directory, no walk is started, no
\* file is opened and no PDF task is submitted, and the error has been reported once
\* the text pipeline is behind.
C5_NoScanOnConfigError ==
    ConfigurationError =>
        /\ walks = 0
        /\ opens = 0
        /\ Len(task) = 0
        /\ pdf_files_to_process = <<>>
        /\ (AfterTextPipeline \/ pc = "done") => errors >= 1

\* C5 witness: a run with a sentence and a missing directory went through both
\* functions to its end.
C5_Witness ==
    /\ pc = "done"
    /\ Strip(sentence_to_find) # <<>>
    /\ folder_to_search = <<"m">>
    /\ errors = 2

\* C6 as stated: without pdftotext, a run whose PDFs were all processed wrote the
\* warning exactly once.
C6_WarnedOncePerRun ==
    (/\ AfterPdfPipeline
     /\ ~toolInstalled
     /\ Len(task) > 0
     /\ \A i \in 1..Len(task) : task[i] = "done") => warnings = 1

\* C6 amended: without pdftotext, every task that ran used PyPDF2 and wrote the
\* warning itself: one warning per PDF file processed.
C6_WarnedOncePerFile ==
    ~toolInstalled =>
        /\ \A i \in 1..Len(task) :
               task[i] = "done" =>
                   taskInfo[i].strategy = "PyPDF2" /\ taskInfo[i].warned
        /\ warnings = Cardinality({i \in 1..Len(task) : taskInfo[i].warned})

\* C6 witness: two PDFs processed without pdftotext, two warnings.
C6_Witness ==
    /\ AfterPdfPipeline
    /\ ~toolInstalled
    /\ Len(task) = 2
    /\ \A i \in 1..Len(task) : task[i] = "done"
    /\ warnings = 2

\* C7 as stated: tasks are collected in the order they finished.
C7_CollectedInCompletionOrder ==
    \A p, q \in 1..Len(collectOrder) :
        p < q => PosIn(finishOrder, collectOrder[p]) < PosIn(finishOrder, collectOrder[q])

\* C7 amended: tasks are collected in submission order, whatever the order they
\* finished in, and the progress written counts the turns of that loop.
C7_CollectedInSubmissionOrder ==
    /\ \A k \in 1..Len(collectOrder) : collectOrder[k] = k
    /\ \A k \in 1..Len(pdfProgress) : pdfProgress[k] <= Len(collectOrder)
    /\ \A p, q \in 1..Len(pdfProgress) : p < q => pdfProgress[p] < pdfProgress[q]

\* C7 witness: the second task finished first and was collected second.
C7_Witness ==
    /\ finishOrder = <<2, 1>>
    /\ collectOrder = <<1, 2>>
    /\ pdfProgress = <<1, 2>>

\* C8 as stated: the emitted count never includes a file whose scan is not over.
C8_EmittedAfterScan == emitted <= Cardinality(finished)

\* C8 amended: the count is incremented and emitted before the file is opened: it
\* includes the file being scanned, and equals the files processed between files.
C8_EmittedBeforeScan ==
    /\ emitted = processed_files_count
    /\ emitted = Cardinality(finished) + (IF pc = "txt_scan" THEN 1 ELSE 0)

\* C8 witness: the second file is about to be opened and the line already says 2.
C8_Witness ==
    /\ pc = "txt_scan"
    /\ emitted = 2
    /\ Cardinality(finished) = 1

\* C9: once search_pdfs has returned, every submitted task is done or failed.
C9_PoolDrained ==
    AfterPdfPipeline => \A i \in 1..Len(task) : task[i] \in {"done", "failed"}

\* C9 witness: search_pdfs has returned after the first task failed and a later one
\* completed.
C9_Witness ==
    /\ pc = "aggregate"
    /\ Len(task) >= 2
    /\ task[1] = "failed"
    /\ task[2] = "done"

\* C10: while a file is being processed 1 <= processed <= total, and processed =
\* total once the text pipeline has returned.
C10_ProcessedWithinTotal ==
    /\ processed_files_count <= total_files_to_process
    /\ pc = "txt_scan" => (1 <= emitted /\ emitted <= total_files_to_process)
    /\ AfterTextPipeline => processed_files_count = total_files_to_process

\* C10 witness: the pipeline returned with two files counted, one of them with an
\* upper-case extension and one of them unreadable.
C10_Witness ==
    /\ pc = "pdf_enter"
    /\ total_files_to_process = 2
    /\ processed_files_count = 2
    /\ \E i \in 1..Len(files) : files[i].ext = ".TXT"
    /\ DOMAIN readErrors # {}

====
